---- MODULE Spec2Model ----
(***************************************************************************)
(* A model of the two scripts of data_visualizations:                      *)
(*                                                                         *)
(*   map_fires_vs_precip.py  the seeded synthetic generator and the        *)
(*                           animated choropleth built from its table      *)
(*                           (specification SpecGen);                      *)
(*   ca_fires_2000-2015.py   the SQLite loader, the exploratory summary    *)
(*                           and the chart builders (specification Spec).  *)
(*                                                                         *)
(* Real numbers are kept as exact fixed-point integers; the unit of every  *)
(* quantity is stated where it is computed.  A quotient is kept as the     *)
(* pair [num, den], and a quotient whose den is 0 is the NaN that 0/0      *)
(* gives in floating point.                                                *)
(***************************************************************************)
EXTENDS Integers, Sequences, FiniteSets, TLC

VARIABLES
    \* ---- map_fires_vs_precip.py ----
    run,          \* which execution of the script this is (1, 2, ...)
    gpc,          \* position of the script
    rng,          \* state of numpy's global generator
    base_precip,  \* state code -> baseline precipitation (mm)
    base_wild,    \* state code -> baseline wildfire level (1/2 units)
    category,     \* state code -> the branch of the baseline chain it took
    rows,         \* the generated table, one record per (year, state)
    intensity,    \* the two normalised columns, or NoColumns before line 76
    cbounds,      \* zmin_precip, zmax_precip, cmin_wild, cmax_wild
    frames,       \* the go.Frame list
    fig,          \* the initial figure data, or NoFig
    outputs,      \* the tables of the executions that have finished
    \* ---- ca_fires_2000-2015.py ----
    db,           \* the database file the loader is pointed at
    lpc,          \* position of load_california_wildfires
    conn,         \* the sqlite3 connection: "none", "open", "closed"
    exc,          \* the exception in flight, or "none"
    lconsole,     \* what the loader has printed
    ldf,          \* the loader's local df
    df,           \* the caller's table: Unset, None or a table
    ncalls,       \* calls the caller has made after loading
    call          \* the last call: its arguments and its outcome

genVars  == <<run, gpc, rng, base_precip, base_wild, category, rows,
              intensity, cbounds, frames, fig, outputs>>
fireVars == <<db, lpc, conn, exc, lconsole, ldf, df, ncalls, call>>
vars     == <<genVars, fireVars>>

(***************************************************************************)
(*                      map_fires_vs_precip.py                             *)
(***************************************************************************)

\* Executions of the script that are compared with one another.
NumRuns == 2
\* The states the generator can be left in by the operating system's
\* entropy when numpy is imported: 0..MaxEntropy.
MaxEntropy == 2

\* np.random.seed(42)
Seed == 42

states == <<"AL","AK","AZ","AR","CA","CO","CT","DE","FL","GA","HI","ID","IL","IN","IA","KS",
            "KY","LA","ME","MD","MA","MI","MN","MS","MO","MT","NE","NV","NH","NJ","NM",
            "NY","NC","ND","OH","OK","OR","PA","RI","SC","SD","TN","TX","UT","VT","VA",
            "WA","WV","WI","WY","DC">>

FirstYear == 2000
EndYear == 2026
\* list(range(2000, 2026))
years == [i \in 1..(EndYear - FirstYear) |-> FirstYear + i - 1]

\* A region table in which Florida was also listed as western.
west_overlapping == {"CA","OR","WA","NV","AZ","NM","CO","UT","ID","MT","WY","FL"}
west == {"CA","OR","WA","NV","AZ","NM","CO","UT","ID","MT","WY"}
southeast == {"FL","GA","AL","MS","LA","SC","NC","TN","KY"}
northeast == {"ME","NH","VT","MA","RI","CT","NY","NJ","PA","MD","DE"}
midwest == {"OH","MI","IN","IL","WI","MN","IA","MO","ND","SD","NE","KS"}
islands == {"HI","AK"}

\* The five named regions, by the name the script gives them.
Regions == [west |-> west, southeast |-> southeast, northeast |-> northeast,
            midwest |-> midwest, islands |-> islands]
RegionNames == {"west", "southeast", "northeast", "midwest", "islands"}

\* ---- numpy's global generator ----
\* numpy's Mersenne Twister is abstracted as a linear congruential
\* generator: what matters is that every draw is a function of the state
\* and advances it.
RngAdvance(s) == (75 * s + 74) % 65537

\* The generator left as the interpreter started it: the seeding forgotten.
SeedState_unseeded(k, before) == before
\* np.random.seed(k): the state becomes a function of k alone, whatever the
\* state was before.
SeedState(k, before) == k

\* A standard normal deviate, in whole standard deviations, cut at 2.
ZScore(s) == (s % 5) - 2
\* np.random.normal(mu, sigma) in the unit of mu and sigma.
Normal(mu, sigma, s) == mu + sigma * ZScore(s)
\* np.random.uniform(a, b) in HALVES of the unit of a and b.
Uniform(a, b, s) == 2 * a + (b - a) * (s % 3)
\* np.random.rand() in tenths.
Rand(s) == s % 10

\* ---- lines 33-51: the baseline chain ----
\* The branch of the if/elif chain a state code takes.
BranchOf(st) ==
    IF st \in west THEN "west"
    ELSE IF st \in southeast THEN "southeast"
    ELSE IF st \in northeast THEN "northeast"
    ELSE IF st \in midwest THEN "midwest"
    ELSE IF st \in islands THEN "islands"
    ELSE "other"

\* np.random.normal(mu, sigma) of each branch (mm) and
\* np.random.uniform(a, b) of each branch.
PrecipParams(b) ==
    CASE b = "west"      -> <<600, 120>>
      [] b = "southeast" -> <<1300, 200>>
      [] b = "northeast" -> <<1100, 200>>
      [] b = "midwest"   -> <<900, 180>>
      [] b = "islands"   -> <<1500, 300>>
      [] OTHER           -> <<800, 200>>
WildParams(b) ==
    CASE b = "west"      -> <<30, 80>>
      [] b = "southeast" -> <<5, 25>>
      [] b = "northeast" -> <<2, 15>>
      [] b = "midwest"   -> <<3, 20>>
      [] b = "islands"   -> <<1, 10>>
      [] OTHER           -> <<2, 30>>

NoColumns == [precip |-> <<>>, wildfire |-> <<>>]
NoBounds == [set |-> FALSE]
NoFig == [built |-> FALSE]
EmptyMap == [x \in {} |-> 0]

Max0(x) == IF x > 0 THEN x ELSE 0

GenIdle ==
    /\ run = 0 /\ gpc = "idle" /\ rng = 0
    /\ base_precip = EmptyMap /\ base_wild = EmptyMap /\ category = EmptyMap
    /\ rows = <<>> /\ intensity = NoColumns /\ cbounds = NoBounds
    /\ frames = <<>> /\ fig = NoFig /\ outputs = <<>>

\* The interpreter starts: numpy's generator holds whatever the operating
\* system's entropy gave it.
GenStart(e) ==
    /\ run = 1 /\ gpc = "seed" /\ rng = e
    /\ base_precip = EmptyMap /\ base_wild = EmptyMap /\ category = EmptyMap
    /\ rows = <<>> /\ intensity = NoColumns /\ cbounds = NoBounds
    /\ frames = <<>> /\ fig = NoFig /\ outputs = <<>>

\* line 13
SeedRng ==
    /\ gpc = "seed"
    /\ rng' = SeedState(Seed, rng)
    /\ gpc' = "baseline"
    /\ UNCHANGED <<run, base_precip, base_wild, category, rows, intensity,
                   cbounds, frames, fig, outputs, fireVars>>

\* lines 33-51, one iteration: the next state code of the list
DrawBaseline ==
    /\ gpc = "baseline"
    /\ LET i  == Cardinality(DOMAIN base_precip) + 1
           st == states[i]
           b  == BranchOf(st)
           s1 == RngAdvance(rng)
           s2 == RngAdvance(s1)
       IN /\ base_precip' = (st :> Normal(PrecipParams(b)[1], PrecipParams(b)[2], s1)) @@ base_precip
          /\ base_wild' = (st :> Uniform(WildParams(b)[1], WildParams(b)[2], s2)) @@ base_wild
          /\ category' = (st :> b) @@ category
          /\ rng' = s2
          /\ gpc' = IF i = Len(states) THEN "rows" ELSE "baseline"
    /\ UNCHANGED <<run, rows, intensity, cbounds, frames, fig, outputs, fireVars>>

\* 0.08 + 0.12*year_frac, compared with rand(): r/10 < 0.08 + 0.12*d/25
SpikeHappens(r, d) == 250 * r < 200 + 12 * d

\* lines 55-71, one iteration of the inner loop.  With d = year - 2000:
\*   precip_mm      in 1/250000 mm: base * (100 + n1) * (2500 + n2 * d)
\*   wildfire_index in 1/200000:    base2 * (250 + 9 d) * (100 + n3) * u4
\* where n1, n2, n3 are the normal draws in hundredths and u4 the spike
\* factor in quarters (4 when there is no spike).
GenRow ==
    /\ gpc = "rows"
    /\ LET n    == Len(rows)
           year == years[(n \div Len(states)) + 1]
           st   == states[(n % Len(states)) + 1]
           d    == year - FirstYear
           s1   == RngAdvance(rng)
           s2   == RngAdvance(s1)
           s3   == RngAdvance(s2)
           s4   == RngAdvance(s3)
           s5   == RngAdvance(s4)
           precip == base_precip[st] * (100 + Normal(0, 8, s1)) * (2500 + Normal(0, 3, s2) * d)
           wild == base_wild[st] * (250 + 9 * d) * (100 + Normal(0, 25, s3))
           spike == st \in west /\ SpikeHappens(Rand(s4), d)
           wild2 == IF spike THEN wild * Uniform(3, 8, s5) ELSE wild * 4
       IN /\ rows' = Append(rows, [state |-> st, year |-> year,
                                   precip_mm |-> Max0(precip),
                                   wildfire_index |-> Max0(wild2)])
          /\ rng' = IF st \in west THEN (IF spike THEN s5 ELSE s4) ELSE s3
          /\ gpc' = IF n + 1 = Len(states) * Len(years) THEN "normalize" ELSE "rows"
    /\ UNCHANGED <<run, base_precip, base_wild, category, intensity, cbounds,
                   frames, fig, outputs, fireVars>>

\* ---- lines 73-77: the table and its two normalised columns ----
SeqRange(s) == {s[i] : i \in DOMAIN s}
SetMin(S) == CHOOSE m \in S : \A y \in S : m <= y
SetMax(S) == CHOOSE m \in S : \A y \in S : m >= y

NaN == [num |-> 0, den |-> 0]
IsNaN(q) == q.den = 0

\* (x - min) / max: the minimum forgotten in numerator and denominator.
Intensity_overmax(x, mn, mx) == [num |-> x, den |-> mx]
\* (x - min) / (max - min), kept as a quotient
Intensity(x, mn, mx) == [num |-> x - mn, den |-> mx - mn]

\* df[col].min() and .max() of a column of quotients.  The quotients of one
\* column share their denominator; pandas skips NaN and gives NaN when
\* nothing is left.
ColumnMin(col) ==
    IF \A i \in DOMAIN col : IsNaN(col[i]) THEN NaN
    ELSE [num |-> SetMin({col[i].num : i \in DOMAIN col}), den |-> col[1].den]
ColumnMax(col) ==
    IF \A i \in DOMAIN col : IsNaN(col[i]) THEN NaN
    ELSE [num |-> SetMax({col[i].num : i \in DOMAIN col}), den |-> col[1].den]

\* df[col].min() and df[col].max() of the two raw columns
RawBounds ==
    LET P == {rows[i].precip_mm : i \in DOMAIN rows}
        W == {rows[i].wildfire_index : i \in DOMAIN rows}
    IN [pmn |-> SetMin(P), pmx |-> SetMax(P), wmn |-> SetMin(W), wmx |-> SetMax(W)]

Normalize ==
    /\ gpc = "normalize"
    /\ \E b \in {RawBounds} :
         intensity' =
            [precip   |-> [i \in DOMAIN rows |-> Intensity(rows[i].precip_mm, b.pmn, b.pmx)],
             wildfire |-> [i \in DOMAIN rows |-> Intensity(rows[i].wildfire_index, b.wmn, b.wmx)]]
    /\ gpc' = "bounds"
    /\ UNCHANGED <<run, rng, base_precip, base_wild, category, rows, cbounds,
                   frames, fig, outputs, fireVars>>

\* lines 81-84
ComputeBounds ==
    /\ gpc = "bounds"
    /\ cbounds' = [set |-> TRUE,
                   zmin_precip |-> ColumnMin(intensity.precip),
                   zmax_precip |-> ColumnMax(intensity.precip),
                   cmin_wild   |-> ColumnMin(intensity.wildfire),
                   cmax_wild   |-> ColumnMax(intensity.wildfire)]
    /\ gpc' = "frames"
    /\ UNCHANGED <<run, rng, base_precip, base_wild, category, rows, intensity,
                   frames, fig, outputs, fireVars>>

\* df[df["year"] == year].set_index("state").reindex(states).reset_index():
\* for each state code of the list, in the list's order, the index of its
\* row of that year (0 when it has none, a row of NaN after reindex).
DYear(year) ==
    [k \in DOMAIN states |->
        LET hit == {j \in DOMAIN rows : rows[j].year = year /\ rows[j].state = states[k]}
        IN IF hit = {} THEN 0 ELSE CHOOSE j \in hit : TRUE]
ColumnOf(col, dyear) ==
    [k \in DOMAIN dyear |-> IF dyear[k] = 0 THEN NaN ELSE col[dyear[k]]]

\* Bounds taken from the frame's own rows instead of the whole table.
PrecipScale_perframe(col) == [lo |-> ColumnMin(col), hi |-> ColumnMax(col)]
\* zmin=zmin_precip, zmax=zmax_precip (lines 93-94, 128-129, 147-148, 179-180)
PrecipScale(col) == [lo |-> cbounds.zmin_precip, hi |-> cbounds.zmax_precip]
\* cmin=cmin_wild, cmax=cmax_wild (lines 111-112, 164-165)
WildScale(col) == [lo |-> cbounds.cmin_wild, hi |-> cbounds.cmax_wild]

\* The three traces built from one year's rows: the choropleth of
\* precipitation intensity and the two scattergeo layers.  Marker sizes
\* (4 + 20 * intensity, 4 + 15 * intensity) follow from the colours.
Traces(year) ==
    LET dyear == DYear(year)
        p == ColumnOf(intensity.precip, dyear)
        w == ColumnOf(intensity.wildfire, dyear)
    IN [chor           |-> [z |-> p, zmin |-> PrecipScale(p).lo, zmax |-> PrecipScale(p).hi],
        scatter_wild   |-> [color |-> w, cmin |-> WildScale(w).lo, cmax |-> WildScale(w).hi],
        scatter_precip |-> [color |-> p, cmin |-> PrecipScale(p).lo, cmax |-> PrecipScale(p).hi]]

\* lines 86-136, one iteration; a frame is named by its year
BuildFrame ==
    /\ gpc = "frames"
    /\ LET year == years[Len(frames) + 1]
       IN frames' = Append(frames, [name |-> year, data |-> Traces(year)])
    /\ gpc' = IF Len(frames) + 1 = Len(years) THEN "figure" ELSE "frames"
    /\ UNCHANGED <<run, rng, base_precip, base_wild, category, rows, intensity,
                   cbounds, fig, outputs, fireVars>>

\* lines 139-214: the initial data are the first year's; one slider step per year
BuildFigure ==
    /\ gpc = "figure"
    /\ fig' = [built |-> TRUE, data |-> Traces(years[1]),
               frames |-> [i \in DOMAIN frames |-> frames[i].name],
               sliders |-> years]
    /\ gpc' = "show"
    /\ UNCHANGED <<run, rng, base_precip, base_wild, category, rows, intensity,
                   cbounds, frames, outputs, fireVars>>

\* lines 217-222: the figure is shown and the script ends; its table is
\* what this execution produced.
ShowAndExit ==
    /\ gpc = "show"
    /\ outputs' = Append(outputs, rows)
    /\ gpc' = "done"
    /\ UNCHANGED <<run, rng, base_precip, base_wild, category, rows, intensity,
                   cbounds, frames, fig, fireVars>>

\* The script is run again, in a new interpreter.
RunAgain ==
    /\ gpc = "done"
    /\ run < NumRuns
    /\ \E e \in 0..MaxEntropy : rng' = e
    /\ run' = run + 1
    /\ gpc' = "seed"
    /\ base_precip' = EmptyMap /\ base_wild' = EmptyMap /\ category' = EmptyMap
    /\ rows' = <<>> /\ intensity' = NoColumns /\ cbounds' = NoBounds
    /\ frames' = <<>> /\ fig' = NoFig
    /\ UNCHANGED <<outputs, fireVars>>

(***************************************************************************)
(*                       ca_fires_2000-2015.py                             *)
(***************************************************************************)

\* Rows a Fires table holds at most.
MaxDbRows == 2
\* Calls the caller makes after loading.
MaxCalls == 1

\* A nullable column holds {} for NULL / NaN and {v} for the value v.
NULL == {}
Val(o) == CHOOSE v \in o : TRUE

\* The rows the modelled Fires tables are made of (State is the STATE
\* column).    Coordinates are whole
\* degrees and sizes whole acres.  The last two do not pass the WHERE clause.
FireCatalogue ==
    { [FIRE_NAME |-> {"CEDAR"}, State |-> "CA", FIRE_YEAR |-> 2000, LATITUDE |-> {33},
       LONGITUDE |-> {-120}, FIRE_SIZE |-> 10, FIRE_SIZE_CLASS |-> "C",
       STAT_CAUSE_DESCR |-> "Lightning"],
      [FIRE_NAME |-> NULL, State |-> "CA", FIRE_YEAR |-> 2001, LATITUDE |-> {41},
       LONGITUDE |-> {-124}, FIRE_SIZE |-> 500, FIRE_SIZE_CLASS |-> "E",
       STAT_CAUSE_DESCR |-> "Arson"],
      [FIRE_NAME |-> {"OAK"}, State |-> "CA", FIRE_YEAR |-> 2001, LATITUDE |-> NULL,
       LONGITUDE |-> {-114}, FIRE_SIZE |-> 3, FIRE_SIZE_CLASS |-> "B",
       STAT_CAUSE_DESCR |-> "Lightning"],
      [FIRE_NAME |-> {"PINE"}, State |-> "CA", FIRE_YEAR |-> 2015, LATITUDE |-> {37},
       LONGITUDE |-> NULL, FIRE_SIZE |-> 50, FIRE_SIZE_CLASS |-> "C",
       STAT_CAUSE_DESCR |-> "Arson"],
      [FIRE_NAME |-> {"RENO"}, State |-> "NV", FIRE_YEAR |-> 2001, LATITUDE |-> {39},
       LONGITUDE |-> {-119}, FIRE_SIZE |-> 70, FIRE_SIZE_CLASS |-> "C",
       STAT_CAUSE_DESCR |-> "Arson"],
      [FIRE_NAME |-> {"OLD"}, State |-> "CA", FIRE_YEAR |-> 1999, LATITUDE |-> {35},
       LONGITUDE |-> {-118}, FIRE_SIZE |-> 20, FIRE_SIZE_CLASS |-> "C",
       STAT_CAUSE_DESCR |-> "Lightning"] }

\* The database files the loader can be pointed at: a path sqlite3 cannot
\* open (a directory that does not exist), a file without a Fires table (a
\* path that does not exist yet is created empty by connect), or a Fires
\* table of at most MaxDbRows rows.
DbTables == UNION {[1..n -> FireCatalogue] : n \in 0..MaxDbRows}
Databases ==
    {[kind |-> "bad_path", rows |-> <<>>], [kind |-> "no_fires_table", rows |-> <<>>]}
    \cup {[kind |-> "ok", rows |-> t] : t \in DbTables}

None == [kind |-> "None"]
Unset == [kind |-> "unset"]
NoCall == [fn |-> "none"]

\* ---- the query, lines 26-33 ----
\* WHERE STATE = 'CA' AND FIRE_YEAR >= 2000 AND FIRE_YEAR <= 2015
Selected(r) == r.State = "CA" /\ r.FIRE_YEAR >= 2000 /\ r.FIRE_YEAR <= 2015
\* ORDER BY FIRE_YEAR, FIRE_SIZE DESC
Before(a, b) ==
    \/ a.FIRE_YEAR < b.FIRE_YEAR
    \/ a.FIRE_YEAR = b.FIRE_YEAR /\ a.FIRE_SIZE > b.FIRE_SIZE

RECURSIVE Insert(_, _)
Insert(r, s) ==
    IF s = <<>> THEN <<r>>
    ELSE IF Before(r, Head(s)) THEN <<r>> \o s
    ELSE <<Head(s)>> \o Insert(r, Tail(s))
RECURSIVE OrderBy(_)
OrderBy(s) == IF s = <<>> THEN <<>> ELSE Insert(s[Len(s)], OrderBy(SubSeq(s, 1, Len(s) - 1)))

\* pd.read_sql_query(query, conn): a result without rows has no values to
\* infer a type from, and every column of it has dtype object.
ReadSqlQuery(tbl) ==
    LET res == OrderBy(SelectSeq(tbl, Selected))
    IN [kind |-> "table", rows |-> res,
        dtype |-> IF res = <<>> THEN "object" ELSE "float64"]

\* except Exception: every failure of connect and of the query is one
CaughtByExcept_sqliteonly(e) == e = "sqlite3.OperationalError"
CaughtByExcept(e) == e \in {"sqlite3.OperationalError", "pandas.errors.DatabaseError"}

\* line 36
LoadStart ==
    /\ lpc = "start"
    /\ lconsole' = Append(lconsole, "Loading California wildfire data (2000-2015)...")
    /\ lpc' = "connect"
    /\ UNCHANGED <<db, conn, exc, ldf, df, ncalls, call, genVars>>

\* line 39: sqlite3.connect(db_path)
LoadConnect ==
    /\ lpc = "connect"
    /\ IF db.kind = "bad_path"
       THEN /\ exc' = "sqlite3.OperationalError"
            /\ lpc' = "except"
            /\ conn' = conn
       ELSE /\ conn' = "open"
            /\ lpc' = "query"
            /\ exc' = exc
    /\ UNCHANGED <<db, lconsole, ldf, df, ncalls, call, genVars>>

\* line 40: pd.read_sql_query(query, conn)
LoadQuery ==
    /\ lpc = "query"
    /\ IF db.kind = "no_fires_table"
       THEN /\ exc' = "pandas.errors.DatabaseError"
            /\ lpc' = "except"
            /\ ldf' = ldf
       ELSE /\ ldf' = ReadSqlQuery(db.rows)
            /\ lpc' = "close"
            /\ exc' = exc
    /\ UNCHANGED <<db, conn, lconsole, df, ncalls, call, genVars>>

\* line 41: conn.close()
LoadClose ==
    /\ lpc = "close"
    /\ conn' = "closed"
    /\ lpc' = "report"
    /\ UNCHANGED <<db, exc, lconsole, ldf, df, ncalls, call, genVars>>

\* lines 43-47: the three lines printed and the table returned
LoadReturn ==
    /\ lpc = "report"
    /\ lconsole' = lconsole \o <<"Successfully loaded", "Years", "Columns">>
    /\ df' = ldf
    /\ lpc' = "returned"
    /\ UNCHANGED <<db, conn, exc, ldf, ncalls, call, genVars>>

\* lines 49-51: the handler; an exception it does not catch leaves the function
LoadExcept ==
    /\ lpc = "except"
    /\ IF CaughtByExcept(exc)
       THEN /\ lconsole' = Append(lconsole, "Error loading data")
            /\ df' = None
            /\ exc' = "none"
            /\ lpc' = "returned"
       ELSE /\ lpc' = "propagated"
            /\ UNCHANGED <<lconsole, df, exc>>
    /\ UNCHANGED <<db, conn, ldf, ncalls, call, genVars>>

\* ---- pandas helpers ----
RECURSIVE SumOver(_, _)
\* the sum of f[i] over the indices i of S
SumOver(S, f) ==
    IF S = {} THEN 0
    ELSE LET i == CHOOSE j \in S : TRUE IN f[i] + SumOver(S \ {i}, f)

Occurrences(v, s) == Cardinality({i \in DOMAIN s : s[i] = v})
FirstAt(v, s) == CHOOSE i \in DOMAIN s : s[i] = v /\ \A j \in DOMAIN s : s[j] = v => i <= j

RECURSIVE RankByCount(_, _)
\* Series.value_counts(): the values by falling count, equal counts in
\* their order of appearance
RankByCount(S, s) ==
    IF S = {} THEN <<>>
    ELSE LET v == CHOOSE x \in S : \A y \in S :
                     \/ Occurrences(x, s) > Occurrences(y, s)
                     \/ Occurrences(x, s) = Occurrences(y, s) /\ FirstAt(x, s) <= FirstAt(y, s)
         IN <<[value |-> v, count |-> Occurrences(v, s)]>> \o RankByCount(S \ {v}, s)
ValueCounts(s) == RankByCount({s[i] : i \in DOMAIN s}, s)

RECURSIVE RankByKey(_, _)
\* .sort_index() of a value_counts(): by rising value
RankByKey(S, s) ==
    IF S = {} THEN <<>>
    ELSE LET v == CHOOSE x \in S : \A y \in S : x <= y
         IN <<[value |-> v, count |-> Occurrences(v, s)]>> \o RankByKey(S \ {v}, s)

\* .head(n)
HeadN(s, n) == SubSeq(s, 1, IF Len(s) < n THEN Len(s) ELSE n)

RECURSIVE RankBySize(_, _)
\* the rows of S by falling FIRE_SIZE, equal sizes in table order
RankBySize(S, rws) ==
    IF S = {} THEN <<>>
    ELSE LET i == CHOOSE x \in S : \A y \in S :
                     \/ rws[x].FIRE_SIZE > rws[y].FIRE_SIZE
                     \/ rws[x].FIRE_SIZE = rws[y].FIRE_SIZE /\ x <= y
         IN <<rws[i]>> \o RankBySize(S \ {i}, rws)

Column(rws, c) == [i \in DOMAIN rws |-> rws[i][c]]
NullableColumns == {"FIRE_NAME", "LATITUDE", "LONGITUDE"}
NullCount(rws, c) == Cardinality({i \in DOMAIN rws : rws[i][c] = NULL})

\* Series.min() / .max() of FIRE_YEAR: NaN (NULL here) for no rows
YearMin(rws) == IF rws = <<>> THEN NULL ELSE {SetMin({rws[i].FIRE_YEAR : i \in DOMAIN rws})}
YearMax(rws) == IF rws = <<>> THEN NULL ELSE {SetMax({rws[i].FIRE_YEAR : i \in DOMAIN rws})}

\* ---- explore_ca_data, lines 53-99 ----
\* What lines 60-83 print.
ExploreStats(rws) ==
    [total         |-> Len(rws),
     year_min      |-> YearMin(rws),
     year_max      |-> YearMax(rws),
     total_acres   |-> SumOver(DOMAIN rws, Column(rws, "FIRE_SIZE")),
     mean_size     |-> [num |-> SumOver(DOMAIN rws, Column(rws, "FIRE_SIZE")), den |-> Len(rws)],
     yearly_counts |-> RankByKey({rws[i].FIRE_YEAR : i \in DOMAIN rws}, Column(rws, "FIRE_YEAR")),
     size_classes  |-> ValueCounts(Column(rws, "FIRE_SIZE_CLASS")),
     top_causes    |-> HeadN(ValueCounts(Column(rws, "STAT_CAUSE_DESCR")), 10)]

\* lines 86-89: the names with 'Unknown' for a missing one
Largest(rws) ==
    LET top == HeadN(RankBySize(DOMAIN rws, rws), 5)
    IN [i \in DOMAIN top |->
          [year |-> top[i].FIRE_YEAR,
           name |-> IF top[i].FIRE_NAME = NULL THEN "Unknown" ELSE Val(top[i].FIRE_NAME),
           size |-> top[i].FIRE_SIZE]]

\* lines 92-96: a line for every column with a missing value; the
\* percentage is 100 * missing_count / len(df)
MissingLines(rws) ==
    [c \in {c \in NullableColumns : NullCount(rws, c) > 0} |->
        [count |-> NullCount(rws, c),
         pct |-> [num |-> 100 * NullCount(rws, c), den |-> Len(rws)]]]

\* DataFrame.nlargest refuses a column whose dtype is object with a
\* TypeError, before it looks at the rows.
NLargestRaises(tbl) == tbl.dtype = "object"

ExploreCaData(arg) ==
    IF arg.kind = "None"
    THEN [ret |-> "None", exc |-> "none", printed |-> <<>>]
    ELSE IF NLargestRaises(arg)
    THEN [ret |-> "raised", exc |-> "TypeError",
          printed |-> <<"Dataset Info", "Fires by Year", "Fire Size Classes",
                        "Top 10 Fire Causes", "Largest Fires (Top 5)">>,
          stats |-> ExploreStats(arg.rows)]
    ELSE [ret |-> "None", exc |-> "none",
          printed |-> <<"Dataset Info", "Fires by Year", "Fire Size Classes",
                        "Top 10 Fire Causes", "Largest Fires (Top 5)",
                        "Missing Data", "First 3 records">>,
          stats |-> ExploreStats(arg.rows),
          largest |-> Largest(arg.rows),
          missing |-> MissingLines(arg.rows),
          head |-> HeadN(arg.rows, 3)]

\* ---- pd.cut(column, bins=nb), lines 128-133 and 192-196 ----
Present(col) == {Val(col[i]) : i \in {j \in DOMAIN col : col[j] # NULL}}

\* pd.cut with a number of bins raises ValueError for a column without
\* rows ("Cannot cut empty array") and for one without a single value (its
\* edges are all NaN: "Bin edges must be unique").
CutRaises(col) == Present(col) = {}

\* labels=False: the index of the bin of o among nb equal bins over
\* [min, max], each closed on the right and the lowest widened to hold the
\* minimum; NaN for a missing value.  A column with one distinct value v is
\* cut over [v - 0.1%, v + 0.1%], where v is the right edge of the middle bin.
CutBin(o, col, nb) ==
    IF o = NULL THEN NULL
    ELSE LET mn == SetMin(Present(col))
             mx == SetMax(Present(col))
             v  == Val(o)
         IN IF mn = mx THEN {((nb + 1) \div 2) - 1}
            ELSE {SetMin({k \in 0..(nb - 1) : nb * (v - mn) <= (k + 1) * (mx - mn)})}

\* The midpoint of bin k, in degrees, as a quotient over 2000 * nb: the
\* lowest bin starts 0.1% of the range below the minimum.
BinMid(b, col, nb) ==
    IF b = NULL THEN NULL
    ELSE LET mn == SetMin(Present(col))
             mx == SetMax(Present(col))
             k  == Val(b)
         IN IF mn = mx THEN {[num |-> 2000 * nb * mn, den |-> 2000 * nb, bin |-> k]}
            ELSE IF k = 0
            THEN {[num |-> 2000 * nb * mn + (1000 - nb) * (mx - mn), den |-> 2000 * nb, bin |-> k]}
            ELSE {[num |-> 2000 * nb * mn + 1000 * (2 * k + 1) * (mx - mn), den |-> 2000 * nb, bin |-> k]}

\* the four columns added to the copy of the table
WithBins(rws, nb) ==
    LET lat == Column(rws, "LATITUDE")
        lon == Column(rws, "LONGITUDE")
    IN [i \in DOMAIN rws |->
          LET lb == CutBin(lat[i], lat, nb)
              ob == CutBin(lon[i], lon, nb)
          IN [row |-> rws[i], lat_bin |-> lb, lon_bin |-> ob,
              lat_center |-> BinMid(lb, lat, nb), lon_center |-> BinMid(ob, lon, nb)]]

\* groupby keeps no row with NaN in one of its keys (dropna=True)
Keyed(binned) == {i \in DOMAIN binned : binned[i].lat_bin # NULL /\ binned[i].lon_bin # NULL}

NoDataMsg == "No data available for visualization"
InvalidMetricMsg == "Invalid metric. Use 'fire_count', 'total_acres', or 'avg_fire_size'"
ValidMetrics == {"fire_count", "total_acres", "avg_fire_size"}

\* lines 138-149: one record per bin that holds a row
Aggregate(binned, metric) ==
    LET keys == {<<binned[i].lat_bin, binned[i].lon_bin>> : i \in Keyed(binned)}
        members(k) == {i \in Keyed(binned) : <<binned[i].lat_bin, binned[i].lon_bin>> = k}
        size == [i \in DOMAIN binned |-> binned[i].row.FIRE_SIZE]
        one(k) == CHOOSE i \in members(k) : TRUE
    IN {[lat_bin |-> Val(k[1]), lon_bin |-> Val(k[2]),
         lat_center |-> Val(binned[one(k)].lat_center),
         lon_center |-> Val(binned[one(k)].lon_center),
         value |-> CASE metric = "fire_count" -> Cardinality(members(k))
                     [] metric = "total_acres" -> SumOver(members(k), size)
                     [] OTHER -> [num |-> SumOver(members(k), size),
                                  den |-> Cardinality(members(k))]] : k \in keys}

\* if year: plot_df = plot_df[plot_df['FIRE_YEAR'] == year]  (None and 0
\* are both false; the model writes 0 for None)
FilterYear(rws, year) ==
    IF year # 0 THEN LET Match(r) == r.FIRE_YEAR = year IN SelectSeq(rws, Match) ELSE rws

\* ---- create_fire_choropleth, lines 101-177 ----
CreateFireChoropleth(arg, metric, year) ==
    IF arg.kind = "None"
    THEN [ret |-> "None", exc |-> "none", printed |-> <<NoDataMsg>>, worked |-> FALSE]
    ELSE LET plot_df == FilterYear(arg.rows, year)
         IN IF CutRaises(Column(plot_df, "LATITUDE")) \/ CutRaises(Column(plot_df, "LONGITUDE"))
            THEN [ret |-> "raised", exc |-> "ValueError", printed |-> <<>>, worked |-> TRUE]
            ELSE LET binned == WithBins(plot_df, 20)
                 IN IF metric \in ValidMetrics
                    THEN [ret |-> "fig", exc |-> "none", printed |-> <<>>, worked |-> TRUE,
                          plot_df |-> binned, agg_data |-> Aggregate(binned, metric),
                          title |-> <<metric, IF year # 0 THEN ToString(year) ELSE "2000-2015">>]
                    ELSE [ret |-> "None", exc |-> "none", printed |-> <<InvalidMetricMsg>>,
                          worked |-> TRUE, plot_df |-> binned]

\* ---- create_time_series_map, lines 179-230 ----
\* lines 201-205: one record per (year, bin) that holds a row, with
\* FIRE_SIZE's count and sum
AggregateByYear(binned) ==
    LET key(i) == <<binned[i].row.FIRE_YEAR, binned[i].lat_bin, binned[i].lon_bin>>
        keys == {key(i) : i \in Keyed(binned)}
        members(k) == {i \in Keyed(binned) : key(i) = k}
        size == [i \in DOMAIN binned |-> binned[i].row.FIRE_SIZE]
        one(k) == CHOOSE i \in members(k) : TRUE
    IN {[FIRE_YEAR |-> k[1], lat_bin |-> Val(k[2]), lon_bin |-> Val(k[3]),
         lat_center |-> Val(binned[one(k)].lat_center),
         lon_center |-> Val(binned[one(k)].lon_center),
         fire_count |-> Cardinality(members(k)),
         total_acres |-> SumOver(members(k), size)] : k \in keys}

CreateTimeSeriesMap(arg) ==
    IF arg.kind = "None"
    THEN [ret |-> "None", exc |-> "none", printed |-> <<NoDataMsg>>, worked |-> FALSE]
    ELSE IF CutRaises(Column(arg.rows, "LATITUDE")) \/ CutRaises(Column(arg.rows, "LONGITUDE"))
    THEN [ret |-> "raised", exc |-> "ValueError", printed |-> <<>>, worked |-> TRUE]
    ELSE LET binned == WithBins(arg.rows, 15)
         IN [ret |-> "fig", exc |-> "none", printed |-> <<>>, worked |-> TRUE,
             df_viz |-> binned, yearly_data |-> AggregateByYear(binned)]

\* ---- create_cause_bar_chart, lines 232-261 ----
\* The guard of lines 236-238 left out: None is subscripted on line 241.
CreateCauseBarChart_unguarded(arg, top_n_causes) ==
    IF arg.kind = "None"
    THEN [ret |-> "raised", exc |-> "TypeError", printed |-> <<>>, worked |-> TRUE]
    ELSE [ret |-> "fig", exc |-> "none", printed |-> <<>>, worked |-> TRUE,
          bars |-> HeadN(ValueCounts(Column(arg.rows, "STAT_CAUSE_DESCR")), top_n_causes)]
CreateCauseBarChart(arg, top_n_causes) ==
    IF arg.kind = "None"
    THEN [ret |-> "None", exc |-> "none", printed |-> <<NoDataMsg>>, worked |-> FALSE]
    ELSE [ret |-> "fig", exc |-> "none", printed |-> <<>>, worked |-> TRUE,
          bars |-> HeadN(ValueCounts(Column(arg.rows, "STAT_CAUSE_DESCR")), top_n_causes)]

\* ---- which table the added columns land in ----
\* A table object is named by who holds it: "caller" is the table the
\* caller passed.
\* plot_df = df: another name for the caller's table, no copy made.
DfCopy_alias(obj) == obj
\* df.copy(), lines 115 and 191: a new object with the same rows
DfCopy(obj) == "copy"

\* The object plot_df names when lines 128-135 assign the four columns:
\* the copy of line 115, or the new frame the selection of line 117 gives.
PlotDfObject(year) == IF year # 0 THEN "selection" ELSE DfCopy("caller")

\* The caller's table once create_fire_choropleth is left: the columns
\* are in it only if plot_df names it.
TableAfterChoropleth(arg, metric, year) ==
    LET out == CreateFireChoropleth(arg, metric, year)
    IN IF arg.kind = "table" /\ "plot_df" \in DOMAIN out /\ PlotDfObject(year) = "caller"
       THEN [arg EXCEPT !.rows = out.plot_df]
       ELSE arg

\* The caller's table once create_time_series_map is left (df_viz, lines
\* 191-198).
TableAfterTimeSeries(arg) ==
    LET out == CreateTimeSeriesMap(arg)
    IN IF arg.kind = "table" /\ "df_viz" \in DOMAIN out /\ DfCopy("caller") = "caller"
       THEN [arg EXCEPT !.rows = out.df_viz]
       ELSE arg

\* create_cause_bar_chart only reads df['STAT_CAUSE_DESCR'] (line 241).
TableAfterCauseBar(arg) == arg

\* ---- the caller, after load_california_wildfires has returned ----
\* A table the caller passes is its own df, so what the callee does to that
\* object is what the caller's df is afterwards.
\* The table it passes is what the loader returned, or None.
Args == {df, None}
Metrics == ValidMetrics \cup {"acres"}
\* year=None (0 here), years with rows, and a year no row of the catalogue has
YearArgs == {0, 2000, 2001, 2015, 2009}
TopNArgs == {1, 10}

CallExplore ==
    /\ lpc = "returned" /\ ncalls < MaxCalls
    /\ \E arg \in Args :
         call' = [fn |-> "explore_ca_data", arg |-> arg, out |-> ExploreCaData(arg)]
    /\ ncalls' = ncalls + 1
    /\ UNCHANGED <<db, lpc, conn, exc, lconsole, ldf, df, genVars>>

CallChoropleth ==
    /\ lpc = "returned" /\ ncalls < MaxCalls
    /\ \E arg \in Args, metric \in Metrics, year \in YearArgs :
         /\ call' = [fn |-> "create_fire_choropleth", arg |-> arg, metric |-> metric,
                     year |-> year, out |-> CreateFireChoropleth(arg, metric, year)]
         /\ df' = IF arg.kind = "table" THEN TableAfterChoropleth(arg, metric, year) ELSE df
    /\ ncalls' = ncalls + 1
    /\ UNCHANGED <<db, lpc, conn, exc, lconsole, ldf, genVars>>

CallTimeSeries ==
    /\ lpc = "returned" /\ ncalls < MaxCalls
    /\ \E arg \in Args :
         /\ call' = [fn |-> "create_time_series_map", arg |-> arg, out |-> CreateTimeSeriesMap(arg)]
         /\ df' = IF arg.kind = "table" THEN TableAfterTimeSeries(arg) ELSE df
    /\ ncalls' = ncalls + 1
    /\ UNCHANGED <<db, lpc, conn, exc, lconsole, ldf, genVars>>

CallCauseBar ==
    /\ lpc = "returned" /\ ncalls < MaxCalls
    /\ \E arg \in Args, n \in TopNArgs :
         /\ call' = [fn |-> "create_cause_bar_chart", arg |-> arg, top_n_causes |-> n,
                     out |-> CreateCauseBarChart(arg, n)]
         /\ df' = IF arg.kind = "table" THEN TableAfterCauseBar(arg) ELSE df
    /\ ncalls' = ncalls + 1
    /\ UNCHANGED <<db, lpc, conn, exc, lconsole, ldf, genVars>>

FireIdle ==
    /\ db = [kind |-> "none", rows |-> <<>>] /\ lpc = "idle" /\ conn = "none" /\ exc = "none"
    /\ lconsole = <<>> /\ ldf = Unset /\ df = Unset /\ ncalls = 0
    /\ call = NoCall

InitGen == (\E e \in 0..MaxEntropy : GenStart(e)) /\ FireIdle
NextGen ==
    \/ SeedRng
    \/ DrawBaseline
    \/ GenRow
    \/ Normalize
    \/ ComputeBounds
    \/ BuildFrame
    \/ BuildFigure
    \/ ShowAndExit
    \/ RunAgain
SpecGen == InitGen /\ [][NextGen]_vars

Init ==
    /\ db \in Databases
    /\ lpc = "start" /\ conn = "none" /\ exc = "none" /\ lconsole = <<>>
    /\ ldf = Unset /\ df = Unset /\ ncalls = 0 /\ call = NoCall
    /\ GenIdle
Next ==
    \/ LoadStart
    \/ LoadConnect
    \/ LoadQuery
    \/ LoadClose
    \/ LoadReturn
    \/ LoadExcept
    \/ CallExplore
    \/ CallChoropleth
    \/ CallTimeSeries
    \/ CallCauseBar
Spec == Init /\ [][Next]_vars

(***************************************************************************)
(*                              The claims                                 *)
(***************************************************************************)

IsPrefix(s, u) == Len(s) <= Len(u) /\ s = SubSeq(u, 1, Len(s))
FullTable(tbl) == Len(tbl) = Len(states) * Len(years)

\* C1: executions of the generator started from the same seed produce the
\* same table, row for row and field for field: every finished execution
\* left the same table, and the table the running execution has built so
\* far is the beginning of it.  (SpecGen)
C1_SameSeedSameTable ==
    /\ \A i, j \in DOMAIN outputs : outputs[i] = outputs[j]
    /\ \A i \in DOMAIN outputs : gpc # "seed" => IsPrefix(rows, outputs[i])

\* C1's case: a second execution, started from other entropy than the
\* first could have had, has finished its table, and the table holds a
\* western row whose spike draw was consumed and multiplied in (more than
\* the largest value the row can have without it).
C1_TwoRunsFinished ==
    /\ Len(outputs) >= 2 /\ gpc = "done"
    /\ FullTable(outputs[1]) /\ FullTable(outputs[2])
    /\ \E i \in DOMAIN rows :
         /\ rows[i].state \in west
         /\ rows[i].wildfire_index >
              base_wild[rows[i].state] * (250 + 9 * (rows[i].year - FirstYear)) * 150 * 4

InUnit(q) == q.den > 0 /\ 0 <= q.num /\ q.num <= q.den
IsZero(q) == q.den # 0 /\ q.num = 0
IsOne(q) == q.den # 0 /\ q.num = q.den

\* C2: every record's precip_intensity and wildfire_intensity lie in
\* [0, 1], and for each metric on its own the record with the least raw
\* value has intensity 0 and the one with the greatest has intensity 1.
\* (SpecGen)
C2_IntensitiesInUnitRange ==
    intensity # NoColumns =>
        \A b \in {RawBounds} : \A i \in DOMAIN rows :
            /\ InUnit(intensity.precip[i])
            /\ InUnit(intensity.wildfire[i])
            /\ rows[i].precip_mm = b.pmn => IsZero(intensity.precip[i])
            /\ rows[i].precip_mm = b.pmx => IsOne(intensity.precip[i])
            /\ rows[i].wildfire_index = b.wmn => IsZero(intensity.wildfire[i])
            /\ rows[i].wildfire_index = b.wmx => IsOne(intensity.wildfire[i])

\* C2's case: the whole table is normalised, and both columns hold
\* values strictly between their least and greatest.
C2_TableNormalised ==
    /\ gpc = "bounds"
    /\ Len(intensity.precip) = Len(states) * Len(years)
    /\ \E i \in DOMAIN rows : 0 < intensity.precip[i].num
                              /\ intensity.precip[i].num < intensity.precip[i].den
    /\ \E i \in DOMAIN rows : 0 < intensity.wildfire[i].num
                              /\ intensity.wildfire[i].num < intensity.wildfire[i].den

\* C3: the colour bounds are those of the whole table, they are there
\* before the first frame is, and every frame built so far and the initial
\* figure data carry exactly them on the choropleth and on both scatter
\* layers.  (SpecGen)
C3_GlobalColourScale ==
    /\ (frames # <<>> \/ fig.built) => cbounds.set
    /\ cbounds.set =>
         \A g \in {[zmin |-> ColumnMin(intensity.precip), zmax |-> ColumnMax(intensity.precip),
                    cmin |-> ColumnMin(intensity.wildfire), cmax |-> ColumnMax(intensity.wildfire)]} :
            /\ cbounds.zmin_precip = g.zmin /\ cbounds.zmax_precip = g.zmax
            /\ cbounds.cmin_wild = g.cmin /\ cbounds.cmax_wild = g.cmax
            /\ \A d \in {frames[k].data : k \in DOMAIN frames}
                        \cup (IF fig.built THEN {fig.data} ELSE {}) :
                 /\ d.chor.zmin = g.zmin /\ d.chor.zmax = g.zmax
                 /\ d.scatter_wild.cmin = g.cmin /\ d.scatter_wild.cmax = g.cmax
                 /\ d.scatter_precip.cmin = g.zmin /\ d.scatter_precip.cmax = g.zmax

\* C3's case: the figure is built over one frame per year, and some
\* frame's own rows span less than the global scale.
C3_FigureBuilt ==
    /\ fig.built
    /\ Len(frames) = Len(years)
    /\ \E k \in DOMAIN frames :
         ColumnMax(frames[k].data.chor.z) # cbounds.zmax_precip

\* The region categories (of the five) that hold a state code.
RegionsOf(st) == {r \in RegionNames : st \in Regions[r]}

\* C8 as stated: every state code the baseline loop has handled is in
\* exactly one of the five region categories and drew from that category's
\* distribution.  (SpecGen)
C8_EveryStateInOneOfFive ==
    \A st \in DOMAIN category :
        Cardinality(RegionsOf(st)) = 1 /\ category[st] \in RegionsOf(st)

\* C8 amended: the five categories are pairwise disjoint, so a state code
\* is in at most one; a code in one drew from that category's
\* distribution, a code in none from the default one; and the codes in
\* none are AR, OK, TX, VA, WV and DC.  (SpecGen)
C8_AtMostOneOfFive ==
    /\ \A st \in DOMAIN category :
         /\ Cardinality(RegionsOf(st)) <= 1
         /\ RegionsOf(st) # {} => category[st] \in RegionsOf(st)
         /\ RegionsOf(st) = {} => category[st] = "other"
    /\ \A r, q \in RegionNames : r # q => Regions[r] \cap Regions[q] = {}
    /\ DOMAIN category = SeqRange(states) =>
         {st \in DOMAIN category : category[st] = "other"} = {"AR", "OK", "TX", "VA", "WV", "DC"}

\* C8's case: the baseline loop has handled the whole list, codes of named
\* categories and codes of none.
C8_AllBaselinesDrawn ==
    /\ DOMAIN category = SeqRange(states)
    /\ Cardinality(DOMAIN category) = 51
    /\ category["CA"] = "west" /\ category["HI"] = "islands"
    /\ category["TX"] = "other"

\* C4: load_california_wildfires never lets an exception out; after a
\* failure of connect or of the query it has printed the diagnostic last
\* and returned None; it returns a table only when connect and the query
\* both succeeded.  (Spec)
C4_LoadNeverPropagates ==
    /\ lpc # "propagated"
    /\ lpc = "returned" =>
         /\ exc = "none"
         /\ df.kind \in {"None", "table"}
         /\ db.kind # "ok" =>
              df = None /\ lconsole[Len(lconsole)] = "Error loading data"
         /\ df.kind = "table" => conn # "none" /\ ldf.kind = "table" /\ df = ldf

\* C4's case: the loader has returned from a path that cannot be opened.
C4_ReturnedFromBadPath ==
    lpc = "returned" /\ db.kind = "bad_path" /\ df = None

\* C5: create_fire_choropleth with an unrecognised metric returns None and
\* raises nothing, whatever the table and the year.  (Spec)
C5_UnknownMetricReturnsNone ==
    (call.fn = "create_fire_choropleth" /\ call.metric \notin ValidMetrics) =>
        call.out.ret = "None" /\ call.out.exc = "none"

\* C6: when create_fire_choropleth has built the 'fire_count' figure, the
\* counts of its bins add up to the number of rows of the table after the
\* year filter.  (Spec)
C6_CountsSumToRows ==
    (call.fn = "create_fire_choropleth" /\ call.metric = "fire_count"
        /\ call.out.ret = "fig") =>
        SumOver(call.out.agg_data, [a \in call.out.agg_data |-> a.value])
            = Len(FilterYear(call.arg.rows, call.year))

\* C7: once load_california_wildfires is left, a connection it opened is
\* closed.  (Spec)
C7_ConnectionClosedOnReturn ==
    (lpc \in {"returned", "propagated"} /\ conn # "none") => conn = "closed"

RenderingFunctions ==
    {"create_fire_choropleth", "create_time_series_map", "create_cause_bar_chart"}

\* C9: a rendering function given None prints the message, bins,
\* aggregates and builds nothing, raises nothing and returns None.  (Spec)
C9_AbsentTableIsNoOp ==
    (call.fn \in RenderingFunctions /\ call.arg = None) =>
        /\ call.out.ret = "None" /\ call.out.exc = "none"
        /\ call.out.printed = <<NoDataMsg>>
        /\ ~call.out.worked
        /\ DOMAIN call.out = {"ret", "exc", "printed", "worked"}

\* C9's case: the loader failed and the caller handed its None to the
\* bar chart builder.
C9_NonePassedOn ==
    /\ df = None
    /\ call.fn = "create_cause_bar_chart" /\ call.arg = None

\* C10: explore_ca_data on the table the loader returned without rows
\* ends without an error, having reported zero records, no per-year or
\* per-class entries, empty cause and largest-fire lists and no
\* missing-data line.  (Spec)
C10_EmptyTableSummary ==
    (call.fn = "explore_ca_data" /\ call.arg = df /\ df.kind = "table" /\ df.rows = <<>>) =>
        /\ call.out.ret = "None" /\ call.out.exc = "none"
        /\ call.out.stats.total = 0
        /\ call.out.stats.yearly_counts = <<>>
        /\ call.out.stats.size_classes = <<>>
        /\ call.out.stats.top_causes = <<>>
        /\ call.out.largest = <<>>
        /\ DOMAIN call.out.missing = {}

\* The columns of the table the loader returns (State is STATE).
LoadedColumns ==
    {"FIRE_NAME", "State", "FIRE_YEAR", "LATITUDE", "LONGITUDE", "FIRE_SIZE",
     "FIRE_SIZE_CLASS", "STAT_CAUSE_DESCR"}

\* C11: after a chart builder has returned (or raised), the caller's table
\* is the table that was passed, with the same rows and the same columns:
\* the bin-index and bin-center columns are in the builder's own copy
\* only.  (Spec)
C11_BuildersLeaveTableAlone ==
    (call.fn \in RenderingFunctions /\ call.arg.kind = "table") =>
        /\ df = call.arg
        /\ \A i \in DOMAIN df.rows : DOMAIN df.rows[i] = LoadedColumns

\* C11's case: create_fire_choropleth, without a year filter, has binned
\* a table with rows and built its figure; its copy holds the added
\* columns.
C11_BinnedWithoutFilter ==
    /\ call.fn = "create_fire_choropleth" /\ call.year = 0
    /\ call.arg.kind = "table" /\ call.arg.rows # <<>>
    /\ call.out.ret = "fig"
    /\ \A i \in DOMAIN call.out.plot_df :
         {"lat_bin", "lon_bin", "lat_center", "lon_center"} \subseteq DOMAIN call.out.plot_df[i]

====
